---- MODULE Spec2Model ----
(***************************************************************************)
(* Weighted sample elimination (blue_noise_particles.py): the class        *)
(* SampleEliminator, its constructor, eliminate_one, eliminate and         *)
(* get_indices, together with the HeapItem ordering and the heapq          *)
(* operations the class calls.                                             *)
(*                                                                         *)
(* Numbers.  Coordinates are integers, so squared distances and the        *)
(* bounding volume are exact.  Radii and weights are IEEE-754 doubles, as  *)
(* Python floats are: a double is held as its sign, exponent and 53-bit    *)
(* mantissa, and sums and differences are rounded to the nearest double,   *)
(* ties to even.  The results of the square root and of the two powers     *)
(* (the cube root in rmax, the eighth power in w) are tabulated for the    *)
(* arguments that occur; the power function of the C library is not        *)
(* specified to the last bit, the tables hold the values it returns.       *)
(* A radius is kept in exact algebraic form beside its double, to name it. *)
(*                                                                         *)
(* Distances come from KDTree.find_range.  mathutils.kdtree computes in    *)
(* single precision: the radius is converted to a single, a node is in     *)
(* range when its squared distance is at most the single square of the     *)
(* radius, and the distance returned is the single square root.  A KDTree  *)
(* that computes in Python floats compares and returns doubles.  The       *)
(* variable single says which of the two the object runs with.             *)
(***************************************************************************)
EXTENDS Integers, Sequences, FiniteSets, TLC

\* ------------------------------------------------------------------ bounds
MaxPoints == 3
MaxTarget == 3

\* positions the input points are drawn from
Sites == { <<0, 0, 0>>, <<1, 0, 0>>, <<2, 0, 0>>, <<1, 1, 1>>, <<2, 2, 2>> }
\* <<is_volume, mesh_area>> of a call; mesh_area << >> is None
Modes == { <<TRUE, << >> >>, <<TRUE, <<2>> >>,
           <<FALSE, << >> >>, <<FALSE, <<0>> >>, <<FALSE, <<2>> >> }
Targets == (0 - 1) .. MaxTarget

\* ------------------------------------------------------------------ doubles
\* A double [neg, exp, hi, lo] is (-1)^neg * (hi * Limb + lo) * 2^exp.  The
\* 53-bit mantissa is held in two limbs because TLC's integers have 32 bits;
\* 2^24 <= hi < 2^25 and 0 <= lo < Limb unless the number is zero.
Limb == 2 ^ 28
Double(exp, hi, lo) == [neg |-> FALSE, exp |-> exp, hi |-> hi, lo |-> lo]
WZero == Double(0, 0, 0)
WOne == Double(0 - 52, 2 ^ 24, 0)

IsZero(a) == a.hi = 0 /\ a.lo = 0
Negated(a) == IF IsZero(a) THEN a ELSE [a EXCEPT !.neg = ~a.neg]
Twice(a) == IF IsZero(a) THEN a ELSE [a EXCEPT !.exp = a.exp + 1]

\* |a| < |b|
MagLess(a, b) ==
    /\ ~IsZero(b)
    /\ \/ IsZero(a)
       \/ a.exp < b.exp
       \/ a.exp = b.exp /\ (a.hi < b.hi \/ (a.hi = b.hi /\ a.lo < b.lo))

WLess(a, b) ==
    IF a.neg # b.neg THEN a.neg
    ELSE IF a.neg THEN MagLess(b, a) ELSE MagLess(a, b)

WLeq(a, b) == ~WLess(b, a)

\* The addition of IEEE 754, on mantissas with three more places (guard,
\* round, sticky): a 56-bit number [h, l] is h * Limb + l.
Extended(a) ==
    [h |-> a.hi * 8 + (a.lo \div (2 ^ 25)), l |-> (a.lo % (2 ^ 25)) * 8]

\* h:l with its last bit set when places were lost
Sticky(h, l, lost) == [h |-> h, l |-> IF lost /\ l % 2 = 0 THEN l + 1 ELSE l]

\* m shifted right by k places; the places shifted out are kept as one
\* sticky last bit
ShiftSticky(m, k) ==
    IF k = 0 THEN m
    ELSE IF k < 28
    THEN Sticky(m.h \div (2 ^ k),
                (m.l \div (2 ^ k)) + (m.h % (2 ^ k)) * (2 ^ (28 - k)),
                m.l % (2 ^ k) # 0)
    ELSE IF k < 56
    THEN Sticky(0, m.h \div (2 ^ (k - 28)), m.h % (2 ^ (k - 28)) # 0 \/ m.l # 0)
    ELSE Sticky(0, 0, m.h # 0 \/ m.l # 0)

RECURSIVE NormalisedLeft(_, _, _)
\* h:l * 2^e, h:l # 0, shifted left until its 56th bit is set
NormalisedLeft(h, l, e) ==
    IF h >= 2 ^ 27 THEN [h |-> h, l |-> l, e |-> e]
    ELSE IF h = 0 THEN NormalisedLeft(l, 0, e - 28)
    ELSE IF h < 2 ^ 14
    THEN NormalisedLeft(h * (2 ^ 14) + (l \div (2 ^ 14)), (l % (2 ^ 14)) * (2 ^ 14), e - 14)
    ELSE IF h < 2 ^ 24
    THEN NormalisedLeft(h * 16 + (l \div (2 ^ 24)), (l % (2 ^ 24)) * 16, e - 4)
    ELSE NormalisedLeft(2 * h + ((2 * l) \div Limb), (2 * l) % Limb, e - 1)

\* the double with mantissa hi:lo, after a carry out of lo or out of hi
Packed(neg, hi, lo, e) ==
    IF lo < Limb THEN [neg |-> neg, exp |-> e, hi |-> hi, lo |-> lo]
    ELSE IF hi + 1 < 2 ^ 25 THEN [neg |-> neg, exp |-> e, hi |-> hi + 1, lo |-> 0]
    ELSE [neg |-> neg, exp |-> e + 1, hi |-> 2 ^ 24, lo |-> 0]

\* the mantissa hi:lo with the three places r below it, rounded to the
\* nearest, a tie (r = 4) to the even mantissa
Nearest(neg, hi, lo, r, e) ==
    Packed(neg, hi, IF r > 4 \/ (r = 4 /\ lo % 2 = 1) THEN lo + 1 ELSE lo, e)

\* m * 2^e with the 56th bit of m set, rounded to 53 bits
Rounded(neg, m, e) ==
    Nearest(neg, m.h \div 8, (m.h % 8) * (2 ^ 25) + (m.l \div 8), m.l % 8, e + 3)

\* the mantissa of y on the exponent of x, |x| >= |y| > 0
Aligned(x, y) ==
    ShiftSticky(Extended(y), IF x.exp - y.exp > 56 THEN 56 ELSE x.exp - y.exp)

\* h:l * 2^e rounded, h:l the sum of two 56-bit numbers
Carried(neg, h, l, e) ==
    Rounded(neg,
            IF h >= Limb THEN ShiftSticky([h |-> h, l |-> l], 1) ELSE [h |-> h, l |-> l],
            IF h >= Limb THEN e + 1 ELSE e)

AddLimbs(neg, a, b, e) ==
    Carried(neg, a.h + b.h + ((a.l + b.l) \div Limb), (a.l + b.l) % Limb, e)

\* (-1)^neg * (|x| + |y|) rounded, |x| >= |y| > 0
AddMagnitudes(neg, x, y) == AddLimbs(neg, Extended(x), Aligned(x, y), x.exp - 3)

\* h:l * 2^e rounded, h:l the difference of two 56-bit numbers
Cancelled(neg, n) == Rounded(neg, n, n.e)

Borrowed(neg, h, l, e) ==
    IF h = 0 /\ l = 0 THEN WZero ELSE Cancelled(neg, NormalisedLeft(h, l, e))

SubLimbs(neg, a, b, e) ==
    Borrowed(neg, a.h - b.h - (IF a.l >= b.l THEN 0 ELSE 1),
             (a.l + Limb - b.l) % Limb, e)

\* (-1)^neg * (|x| - |y|) rounded, |x| >= |y| > 0
SubMagnitudes(neg, x, y) == SubLimbs(neg, Extended(x), Aligned(x, y), x.exp - 3)

\* x + y for |x| >= |y| > 0: the sign is that of x
Combined(x, y) ==
    IF x.neg = y.neg THEN AddMagnitudes(x.neg, x, y) ELSE SubMagnitudes(x.neg, x, y)

Larger(a, b) == IF MagLess(a, b) THEN b ELSE a
Smaller(a, b) == IF MagLess(a, b) THEN a ELSE b

\* a + b of two doubles (float.__add__)
WAdd(a, b) ==
    IF IsZero(b) THEN a
    ELSE IF IsZero(a) THEN b
    ELSE Combined(Larger(a, b), Smaller(a, b))

\* a - b of two doubles (float.__sub__)
WSub(a, b) == WAdd(a, Negated(b))

\* ------------------------------------------------------ single precision
\* A single is held as the double of the same value: its mantissa has 24
\* bits, the upper 24 of hi.

\* sign, 24-bit mantissa top (2^24 after a carry) and exponent, as a double
Widened(neg, top, e) ==
    IF top < 2 ^ 24 THEN [neg |-> neg, exp |-> e, hi |-> 2 * top, lo |-> 0]
    ELSE [neg |-> neg, exp |-> e + 1, hi |-> 2 ^ 24, lo |-> 0]

\* top:rest rounded to top, to nearest, ties to even; half is the weight of
\* the first bit of rest
Chopped(neg, top, rest, half, e) ==
    Widened(neg,
            IF rest > half \/ (rest = half /\ top % 2 = 1) THEN top + 1 ELSE top,
            e)

\* the conversion of a double to single precision
Single(a) ==
    IF IsZero(a) THEN a
    ELSE Chopped(a.neg, a.hi \div 2, (a.hi % 2) * Limb + a.lo, Limb, a.exp)

\* the exact product h:l * 2^e of two singles, rounded to single precision:
\* h:l has 48 or 47 bits (h below 2^20), the upper 24 are kept
SingleRounded(neg, h, l, e) ==
    IF h = 0 /\ l = 0 THEN WZero
    ELSE IF h >= 2 ^ 19
         THEN Chopped(neg, h * 16 + (l \div (2 ^ 24)), l % (2 ^ 24), 2 ^ 23, e - 5)
         ELSE Chopped(neg, h * 32 + (l \div (2 ^ 23)), l % (2 ^ 23), 2 ^ 22, e - 6)

\* (a1 * 2^12 + b1) * (a2 * 2^12 + b2) as the low limb before its carry:
\* b1 * b2, the low 16 bits of the cross terms and the low 4 bits of a1 * a2
LowPart(a1, b1, a2, b2) ==
    b1 * b2 + ((a1 * b2 + a2 * b1) % (2 ^ 16)) * (2 ^ 12)
        + ((a1 * a2) % 16) * (2 ^ 24)

\* the same product as the high limb, carry of the low limb included
HighPart(a1, b1, a2, b2) ==
    ((a1 * a2) \div 16) + ((a1 * b2 + a2 * b1) \div (2 ^ 16))
        + (LowPart(a1, b1, a2, b2) \div Limb)

\* the product of the 24-bit mantissas m1 and m2 of two singles
MantissaProduct(neg, m1, m2, e) ==
    SingleRounded(neg,
                  HighPart(m1 \div (2 ^ 12), m1 % (2 ^ 12), m2 \div (2 ^ 12), m2 % (2 ^ 12)),
                  LowPart(m1 \div (2 ^ 12), m1 % (2 ^ 12), m2 \div (2 ^ 12), m2 % (2 ^ 12)) % Limb,
                  e)

\* x * y in single precision, x and y singles
SingleProduct(x, y) ==
    MantissaProduct(x.neg # y.neg, x.hi \div 2, y.hi \div 2, x.exp + y.exp + 58)

RECURSIVE Scaled(_, _)
\* hi * 2^28 * 2^e as a double, hi > 0
Scaled(hi, e) ==
    IF hi >= 2 ^ 24 THEN Double(e, hi, 0)
    ELSE IF hi < 2 ^ 12 THEN Scaled(hi * (2 ^ 12), e - 12)
    ELSE IF hi < 2 ^ 20 THEN Scaled(hi * 16, e - 4)
    ELSE Scaled(2 * hi, e - 1)

\* the whole number n >= 0 as a double (and as a single, for n < 2^24)
Whole(n) == IF n = 0 THEN WZero ELSE Scaled(n, 0 - 28)

\* ------------------------------------------------------------------ helpers
SetMax(S) == CHOOSE m \in S : \A x \in S : x <= m
SetMin(S) == CHOOSE m \in S : \A x \in S : m <= x

Indices(locs) == { locs[k].index : k \in 1 .. Len(locs) }
Location(locs, index) == (CHOOSE k \in 1 .. Len(locs) : locs[k].index = index)
LocationOf(locs, index) == locs[Location(locs, index)].co

\* ---------------------------------------------------------------- distances
\* squared Euclidean distance of two locations, exact for whole coordinates
Dist2(a, b) ==
    (a[1] - b[1]) * (a[1] - b[1]) + (a[2] - b[2]) * (a[2] - b[2])
        + (a[3] - b[3]) * (a[3] - b[3])

\* the double square root of n, for the squared distances n between points
\* of the cube 0..2
SqrtTable ==
    0 :> WZero
    @@ 1 :> Double(0 - 52, 16777216, 0)
    @@ 2 :> Double(0 - 52, 23726566, 109001677)
    @@ 3 :> Double(0 - 52, 29058990, 140004522)
    @@ 4 :> Double(0 - 51, 16777216, 0)
    @@ 5 :> Double(0 - 51, 18757497, 194507944)
    @@ 6 :> Double(0 - 51, 20547809, 67707182)
    @@ 7 :> Double(0 - 51, 22194170, 164821226)
    @@ 8 :> Double(0 - 51, 23726566, 109001677)
    @@ 9 :> Double(0 - 51, 25165824, 0)
    @@ 10 :> Double(0 - 51, 26527107, 182082387)
    @@ 11 :> Double(0 - 51, 27821865, 66940724)
    @@ 12 :> Double(0 - 51, 29058990, 140004522)

\* the precision of the KDTree the object is built on: TRUE for single
\* (mathutils.kdtree), FALSE for a KDTree that keeps Python floats
VARIABLE single

\* the distance d that find_range returns for a node with squared distance
\* d2: the single square root of d2 (the double one correctly rounded to a
\* single), or the double square root
Distance(d2) == IF single THEN Single(SqrtTable[d2]) ELSE SqrtTable[d2]

\* ------------------------------------------------------------------- KDTree
NoTree == [balanced |-> FALSE, nodes |-> {}]

\* (mutation: the tree holds one more node, under an index that is no key)
TreeBuild_stale(locs) ==
    [balanced |-> TRUE,
     nodes |-> { locs[k] : k \in 1 .. Len(locs) }
                  \cup { [index |-> 0, co |-> locs[k].co] : k \in 1 .. Len(locs) }]

\* KDTree(len(locations)); insert every entry; balance()
TreeBuild(locs) ==
    [balanced |-> TRUE, nodes |-> { locs[k] : k \in 1 .. Len(locs) }]

\* ------------------------------------------------------------------ radii
\* A radius r is named by its exact algebraic form: kind "real" with
\* (2r)^e = p/q (p = 0: r = 0), or kind "complex" (a negative number raised
\* to a fractional power).  Value(r) is the double the program computes.
Complex == [kind |-> "complex", e |-> 0, p |-> 0, q |-> 1]
Real(e, p, q) == [kind |-> "real", e |-> e, p |-> p, q |-> q]

\* (A / 4 / sqrt(2) / N) ** (1/3), N # 0:  (2r)^6 = 2 A^2 / N^2
VolumeRadius(A, N) ==
    IF A * N < 0 THEN Complex
    ELSE Real(6, 2 * A * A, N * N)

\* sqrt(mesh_area / 2 / sqrt(3) / N), mesh_area / N >= 0:  (2r)^4 = 4 area^2 / (3 N^2)
SurfaceRadius(area, N) == Real(4, 4 * area * area, 3 * N * N)

\* The doubles of the two expressions above, by <<e, p, q>>: box volumes
\* A in {1, 2, 4, 8}, areas 1..3, targets N in 1..5.
RadiusTable ==
    <<4, 4, 3>> :> Double(0 - 53, 18028291, 229058347)
    @@ <<4, 4, 12>> :> Double(0 - 54, 25495854, 226927212)
    @@ <<4, 4, 27>> :> Double(0 - 54, 20817278, 82966417)
    @@ <<4, 4, 48>> :> Double(0 - 54, 18028291, 229058347)
    @@ <<4, 4, 75>> :> Double(0 - 55, 32249988, 236696556)
    @@ <<4, 16, 3>> :> Double(0 - 53, 25495854, 226927212)
    @@ <<4, 16, 12>> :> Double(0 - 53, 18028291, 229058347)
    @@ <<4, 16, 27>> :> Double(0 - 54, 29440077, 84929673)
    @@ <<4, 16, 48>> :> Double(0 - 54, 25495854, 226927212)
    @@ <<4, 16, 75>> :> Double(0 - 54, 22804185, 223200230)
    @@ <<4, 36, 3>> :> Double(0 - 53, 31225917, 124449626)
    @@ <<4, 36, 12>> :> Double(0 - 53, 22080057, 265023847)
    @@ <<4, 36, 27>> :> Double(0 - 53, 18028291, 229058347)
    @@ <<4, 36, 48>> :> Double(0 - 54, 31225917, 124449626)
    @@ <<4, 36, 75>> :> Double(0 - 54, 27929309, 172704068)
    @@ <<6, 2, 1>> :> Double(0 - 53, 18831788, 63428288)
    @@ <<6, 2, 4>> :> Double(0 - 54, 29893600, 122601769)
    @@ <<6, 2, 9>> :> Double(0 - 54, 26114465, 101905875)
    @@ <<6, 2, 16>> :> Double(0 - 54, 23726566, 109001677)
    @@ <<6, 2, 25>> :> Double(0 - 54, 22025793, 37063076)
    @@ <<6, 8, 1>> :> Double(0 - 53, 23726566, 109001676)
    @@ <<6, 8, 4>> :> Double(0 - 53, 18831788, 63428288)
    @@ <<6, 8, 9>> :> Double(0 - 54, 32902164, 171408238)
    @@ <<6, 8, 16>> :> Double(0 - 54, 29893600, 122601769)
    @@ <<6, 8, 25>> :> Double(0 - 54, 27750760, 111477313)
    @@ <<6, 32, 1>> :> Double(0 - 53, 29893600, 122601769)
    @@ <<6, 32, 4>> :> Double(0 - 53, 23726566, 109001676)
    @@ <<6, 32, 9>> :> Double(0 - 53, 20727064, 243633382)
    @@ <<6, 32, 16>> :> Double(0 - 53, 18831788, 63428288)
    @@ <<6, 32, 25>> :> Double(0 - 53, 17481883, 160766989)
    @@ <<6, 128, 1>> :> Double(0 - 52, 18831788, 63428288)
    @@ <<6, 128, 4>> :> Double(0 - 53, 29893600, 122601769)
    @@ <<6, 128, 9>> :> Double(0 - 53, 26114465, 101905875)
    @@ <<6, 128, 16>> :> Double(0 - 53, 23726566, 109001676)
    @@ <<6, 128, 25>> :> Double(0 - 53, 22025793, 37063076)

\* the double self.rmax of the radius r
Value(r) == IF r.p = 0 THEN WZero ELSE RadiusTable[<<r.e, r.p, r.q>>]

\* rmax2 < self.rmax for the two candidates built from A, mesh_area and N
SurfaceLess(area, A, N) ==
    WLess(Value(SurfaceRadius(area, N)), Value(VolumeRadius(A, N)))

\* (mutation: the surface candidate is taken whichever is smaller)
RadiusSurface(area, A, N) == SurfaceRadius(area, N)

\* min(self.rmax, rmax2): the first argument unless the second is smaller
RadiusMin(area, A, N) ==
    IF SurfaceLess(area, A, N) THEN SurfaceRadius(area, N) ELSE VolumeRadius(A, N)

\* range * range in single precision, range the single of 2 * rmax
RangeSquared(range) == SingleProduct(range, range)

\* what find_range(location, 2 * rmax) compares every node with: range_sq in
\* singles, or the radius in doubles
Reach(r) ==
    IF single THEN RangeSquared(Single(Twice(Value(r)))) ELSE Twice(Value(r))

\* what it compares of a node with squared distance d2: dist_sq in singles,
\* or the distance in doubles
Measure(d2) == IF single THEN Whole(d2) ELSE Distance(d2)

\* the range test of find_range(location, 2 * rmax) for a node with squared
\* distance d2: dist_sq <= range_sq in singles, or d <= 2 * rmax in doubles
WithinTwice(d2, r) == WLeq(Measure(d2), Reach(r))

\* the nodes of the tree that the comparison with reach lets through, each
\* with its squared distance from co
within(tree, co, reach) ==
    { [index |-> n.index, d2 |-> Dist2(n.co, co)] :
        n \in { m \in tree.nodes : WLeq(Measure(Dist2(m.co, co)), reach) } }

\* (mutation: the range query returns the nodes at the query location only)
find_range_first(tree, co, r) ==
    { [index |-> n.index, d2 |-> 0] : n \in { m \in tree.nodes : m.co = co } }

\* tree.find_range(location, 2 * rmax): every node of the tree within the
\* radius, the node at the query location included, with its squared distance
\* (Distance gives the distance returned with it)
find_range(tree, co, r) == within(tree, co, Reach(r))

\* ------------------------------------------------------------ weight model
Alpha == 8

\* adj_d(d) = min(d, 2 * rmax): d unless 2 * rmax is smaller, d the distance
\* returned for the squared distance d2
adj_d(d2, r) ==
    IF WLess(Twice(Value(r)), Distance(d2)) THEN Twice(Value(r)) ELSE Distance(d2)

\* The doubles (1 - x / 2 / rmax) ** alpha for every radius of RadiusTable and
\* every x that adj_d gives for the double or the single square root of
\* d2 = 0 .. 12, by <<e, p, q, x.exp, x.hi, x.lo>>.
WTable ==
    <<4, 4, 3, 0, 0, 0>> :> WOne
    @@ <<4, 4, 3, 0 - 52, 16777216, 0>> :> Double(0 - 83, 19376808, 246599136)
    @@ <<4, 4, 3, 0 - 52, 18028291, 229058347>> :> WZero
    @@ <<4, 4, 12, 0, 0, 0>> :> WOne
    @@ <<4, 4, 12, 0 - 53, 25495854, 226927212>> :> WZero
    @@ <<4, 4, 27, 0, 0, 0>> :> WOne
    @@ <<4, 4, 27, 0 - 53, 20817278, 82966417>> :> WZero
    @@ <<4, 4, 48, 0, 0, 0>> :> WOne
    @@ <<4, 4, 48, 0 - 53, 18028291, 229058347>> :> WZero
    @@ <<4, 4, 75, 0, 0, 0>> :> WOne
    @@ <<4, 4, 75, 0 - 54, 32249988, 236696556>> :> WZero
    @@ <<4, 16, 3, 0, 0, 0>> :> WOne
    @@ <<4, 16, 3, 0 - 52, 16777216, 0>> :> Double(0 - 65, 25700567, 262698493)
    @@ <<4, 16, 3, 0 - 52, 23726566, 0>> :> Double(0 - 83, 19376844, 133005452)
    @@ <<4, 16, 3, 0 - 52, 23726566, 109001677>> :> Double(0 - 83, 19376808, 246599136)
    @@ <<4, 16, 3, 0 - 52, 25495854, 226927212>> :> WZero
    @@ <<4, 16, 12, 0, 0, 0>> :> WOne
    @@ <<4, 16, 12, 0 - 52, 16777216, 0>> :> Double(0 - 83, 19376808, 246599136)
    @@ <<4, 16, 12, 0 - 52, 18028291, 229058347>> :> WZero
    @@ <<4, 16, 27, 0, 0, 0>> :> WOne
    @@ <<4, 16, 27, 0 - 53, 29440077, 84929673>> :> WZero
    @@ <<4, 16, 48, 0, 0, 0>> :> WOne
    @@ <<4, 16, 48, 0 - 53, 25495854, 226927212>> :> WZero
    @@ <<4, 16, 75, 0, 0, 0>> :> WOne
    @@ <<4, 16, 75, 0 - 53, 22804185, 223200230>> :> WZero
    @@ <<4, 36, 3, 0, 0, 0>> :> WOne
    @@ <<4, 36, 3, 0 - 52, 16777216, 0>> :> Double(0 - 61, 18050895, 1885329)
    @@ <<4, 36, 3, 0 - 52, 23726566, 0>> :> Double(0 - 69, 24338725, 4066616)
    @@ <<4, 36, 3, 0 - 52, 23726566, 109001677>> :> Double(0 - 69, 24338714, 126786473)
    @@ <<4, 36, 3, 0 - 52, 29058990, 0>> :> Double(0 - 83, 19376846, 61500356)
    @@ <<4, 36, 3, 0 - 52, 29058990, 140004522>> :> Double(0 - 83, 19376808, 246599203)
    @@ <<4, 36, 3, 0 - 52, 31225917, 124449626>> :> WZero
    @@ <<4, 36, 12, 0, 0, 0>> :> WOne
    @@ <<4, 36, 12, 0 - 52, 16777216, 0>> :> Double(0 - 69, 24338714, 126786497)
    @@ <<4, 36, 12, 0 - 52, 22080057, 265023847>> :> WZero
    @@ <<4, 36, 27, 0, 0, 0>> :> WOne
    @@ <<4, 36, 27, 0 - 52, 16777216, 0>> :> Double(0 - 83, 19376808, 246599136)
    @@ <<4, 36, 27, 0 - 52, 18028291, 229058347>> :> WZero
    @@ <<4, 36, 48, 0, 0, 0>> :> WOne
    @@ <<4, 36, 48, 0 - 53, 31225917, 124449626>> :> WZero
    @@ <<4, 36, 75, 0, 0, 0>> :> WOne
    @@ <<4, 36, 75, 0 - 53, 27929309, 172704068>> :> WZero
    @@ <<6, 2, 1, 0, 0, 0>> :> WOne
    @@ <<6, 2, 1, 0 - 52, 16777216, 0>> :> Double(0 - 78, 22601570, 16094894)
    @@ <<6, 2, 1, 0 - 52, 18831788, 63428288>> :> WZero
    @@ <<6, 2, 4, 0, 0, 0>> :> WOne
    @@ <<6, 2, 4, 0 - 53, 29893600, 122601769>> :> WZero
    @@ <<6, 2, 9, 0, 0, 0>> :> WOne
    @@ <<6, 2, 9, 0 - 53, 26114465, 101905875>> :> WZero
    @@ <<6, 2, 16, 0, 0, 0>> :> WOne
    @@ <<6, 2, 16, 0 - 53, 23726566, 109001677>> :> WZero
    @@ <<6, 2, 25, 0, 0, 0>> :> WOne
    @@ <<6, 2, 25, 0 - 53, 22025793, 37063076>> :> WZero
    @@ <<6, 8, 1, 0, 0, 0>> :> WOne
    @@ <<6, 8, 1, 0 - 52, 16777216, 0>> :> Double(0 - 67, 29774492, 93310215)
    @@ <<6, 8, 1, 0 - 52, 23726566, 0>> :> Double(0 - 259, 25397807, 266892122)
    @@ <<6, 8, 1, 0 - 52, 23726566, 109001676>> :> WZero
    @@ <<6, 8, 4, 0, 0, 0>> :> WOne
    @@ <<6, 8, 4, 0 - 52, 16777216, 0>> :> Double(0 - 78, 22601570, 16094894)
    @@ <<6, 8, 4, 0 - 52, 18831788, 63428288>> :> WZero
    @@ <<6, 8, 9, 0, 0, 0>> :> WOne
    @@ <<6, 8, 9, 0 - 53, 32902164, 171408238>> :> WZero
    @@ <<6, 8, 16, 0, 0, 0>> :> WOne
    @@ <<6, 8, 16, 0 - 53, 29893600, 122601769>> :> WZero
    @@ <<6, 8, 25, 0, 0, 0>> :> WOne
    @@ <<6, 8, 25, 0 - 53, 27750760, 111477313>> :> WZero
    @@ <<6, 32, 1, 0, 0, 0>> :> WOne
    @@ <<6, 32, 1, 0 - 52, 16777216, 0>> :> Double(0 - 62, 23599736, 80873963)
    @@ <<6, 32, 1, 0 - 52, 23726566, 0>> :> Double(0 - 71, 28858583, 90611013)
    @@ <<6, 32, 1, 0 - 52, 23726566, 109001677>> :> Double(0 - 71, 28858568, 36564727)
    @@ <<6, 32, 1, 0 - 52, 29058990, 0>> :> Double(0 - 94, 27241090, 9516163)
    @@ <<6, 32, 1, 0 - 52, 29058990, 140004522>> :> Double(0 - 94, 27240953, 228071780)
    @@ <<6, 32, 1, 0 - 52, 29893600, 122601769>> :> WZero
    @@ <<6, 32, 4, 0, 0, 0>> :> WOne
    @@ <<6, 32, 4, 0 - 52, 16777216, 0>> :> Double(0 - 67, 29774492, 93310215)
    @@ <<6, 32, 4, 0 - 52, 23726566, 0>> :> Double(0 - 259, 25397807, 266892122)
    @@ <<6, 32, 4, 0 - 52, 23726566, 109001676>> :> WZero
    @@ <<6, 32, 9, 0, 0, 0>> :> WOne
    @@ <<6, 32, 9, 0 - 52, 16777216, 0>> :> Double(0 - 72, 30595757, 207385715)
    @@ <<6, 32, 9, 0 - 52, 20727064, 243633382>> :> WZero
    @@ <<6, 32, 16, 0, 0, 0>> :> WOne
    @@ <<6, 32, 16, 0 - 52, 16777216, 0>> :> Double(0 - 78, 22601570, 16094894)
    @@ <<6, 32, 16, 0 - 52, 18831788, 63428288>> :> WZero
    @@ <<6, 32, 25, 0, 0, 0>> :> WOne
    @@ <<6, 32, 25, 0 - 52, 16777216, 0>> :> Double(0 - 90, 32138704, 2437025)
    @@ <<6, 32, 25, 0 - 52, 17481883, 160766989>> :> WZero
    @@ <<6, 128, 1, 0, 0, 0>> :> WOne
    @@ <<6, 128, 1, 0 - 52, 16777216, 0>> :> Double(0 - 59, 19207000, 258513429)
    @@ <<6, 128, 1, 0 - 52, 23726566, 0>> :> Double(0 - 64, 24158190, 29886610)
    @@ <<6, 128, 1, 0 - 52, 23726566, 109001677>> :> Double(0 - 64, 24158184, 128965456)
    @@ <<6, 128, 1, 0 - 52, 29058990, 0>> :> Double(0 - 70, 32638289, 26900616)
    @@ <<6, 128, 1, 0 - 52, 29058990, 140004522>> :> Double(0 - 70, 32638273, 73429382)
    @@ <<6, 128, 1, 0 - 51, 16777216, 0>> :> Double(0 - 78, 22601570, 16094894)
    @@ <<6, 128, 1, 0 - 51, 18757497, 194507944>> :> Double(0 - 116, 18154066, 118390229)
    @@ <<6, 128, 1, 0 - 51, 18757498, 0>> :> Double(0 - 116, 18153528, 15647475)
    @@ <<6, 128, 1, 0 - 51, 18831788, 63428288>> :> WZero
    @@ <<6, 128, 4, 0, 0, 0>> :> WOne
    @@ <<6, 128, 4, 0 - 52, 16777216, 0>> :> Double(0 - 62, 23599736, 80873963)
    @@ <<6, 128, 4, 0 - 52, 23726566, 0>> :> Double(0 - 71, 28858583, 90611013)
    @@ <<6, 128, 4, 0 - 52, 23726566, 109001677>> :> Double(0 - 71, 28858568, 36564727)
    @@ <<6, 128, 4, 0 - 52, 29058990, 0>> :> Double(0 - 94, 27241090, 9516163)
    @@ <<6, 128, 4, 0 - 52, 29058990, 140004522>> :> Double(0 - 94, 27240953, 228071780)
    @@ <<6, 128, 4, 0 - 52, 29893600, 122601769>> :> WZero
    @@ <<6, 128, 9, 0, 0, 0>> :> WOne
    @@ <<6, 128, 9, 0 - 52, 16777216, 0>> :> Double(0 - 64, 18356183, 178204136)
    @@ <<6, 128, 9, 0 - 52, 23726566, 0>> :> Double(0 - 80, 22010952, 205108823)
    @@ <<6, 128, 9, 0 - 52, 23726566, 109001677>> :> Double(0 - 80, 22010922, 220214588)
    @@ <<6, 128, 9, 0 - 52, 26114465, 101905875>> :> WZero
    @@ <<6, 128, 16, 0, 0, 0>> :> WOne
    @@ <<6, 128, 16, 0 - 52, 16777216, 0>> :> Double(0 - 67, 29774492, 93310215)
    @@ <<6, 128, 16, 0 - 52, 23726566, 0>> :> Double(0 - 259, 25397807, 266892122)
    @@ <<6, 128, 16, 0 - 52, 23726566, 109001676>> :> WZero
    @@ <<6, 128, 25, 0, 0, 0>> :> WOne
    @@ <<6, 128, 25, 0 - 52, 16777216, 0>> :> Double(0 - 69, 22861780, 103919335)
    @@ <<6, 128, 25, 0 - 52, 22025793, 37063076>> :> WZero

\* (1 - x / 2 / rmax) ** alpha for x = adj_d(d), rmax > 0
Falloff(x, r) == WTable[<<r.e, r.p, r.q, x.exp, x.hi, x.lo>>]

\* (mutation: the falloff is inverted, the weight grows with the distance)
w_rising(d2, r) == WSub(WOne, Falloff(adj_d(d2, r), r))

\* w(d) = (1 - adj_d(d) / 2 / rmax) ** alpha, rmax > 0
w(d2, r) == Falloff(adj_d(d2, r), r)

\* ------------------------------------------------------------------ heapq
\* The heap holds item identifiers; hi maps an identifier to its HeapItem's
\* weight (the heap and heap_items share the HeapItem objects).

\* (mutation: the comparison of a min-heap)
lt_min(hi, a, b) == WLess(hi[a], hi[b])

\* HeapItem.__lt__: self.weight > other.weight
lt(hi, a, b) == WLess(hi[b], hi[a])

\* positions are 0-based as in the source; heap[pos + 1] is the element at pos
RECURSIVE siftdown_loop(_, _, _, _, _)
siftdown_loop(hi, heap, newitem, startpos, pos) ==
    IF pos > startpos
    THEN LET parentpos == (pos - 1) \div 2
             parent == heap[parentpos + 1]
         IN IF lt(hi, newitem, parent)
            THEN siftdown_loop(hi, [heap EXCEPT ![pos + 1] = parent],
                               newitem, startpos, parentpos)
            ELSE [heap EXCEPT ![pos + 1] = newitem]
    ELSE [heap EXCEPT ![pos + 1] = newitem]

siftdown(hi, heap, startpos, pos) ==
    siftdown_loop(hi, heap, heap[pos + 1], startpos, pos)

RECURSIVE siftup_loop(_, _, _)
\* bubble the smaller child up until a leaf is hit; the position left free
siftup_loop(hi, heap, pos) ==
    LET endpos == Len(heap)
        childpos == 2 * pos + 1
        rightpos == childpos + 1
    IN IF childpos < endpos
       THEN LET c == IF rightpos < endpos
                        /\ ~lt(hi, heap[childpos + 1], heap[rightpos + 1])
                     THEN rightpos ELSE childpos
            IN siftup_loop(hi, [heap EXCEPT ![pos + 1] = heap[c + 1]], c)
       ELSE [heap |-> heap, pos |-> pos]

siftup(hi, heap, pos) ==
    LET newitem == heap[pos + 1]
        r == siftup_loop(hi, heap, pos)
    IN siftdown(hi, [r.heap EXCEPT ![r.pos + 1] = newitem], pos, r.pos)

heappush(hi, heap, item) == siftdown(hi, Append(heap, item), 0, Len(heap))

\* (mutation: list.pop() in place of heappop)
heappop_last(hi, heap) ==
    [item |-> heap[Len(heap)], heap |-> SubSeq(heap, 1, Len(heap) - 1)]

\* heappop of a non-empty heap: the item returned and the heap left
heappop(hi, heap) ==
    LET lastelt == heap[Len(heap)]
        rest == SubSeq(heap, 1, Len(heap) - 1)
    IN IF rest # << >>
       THEN [item |-> rest[1], heap |-> siftup(hi, [rest EXCEPT ![1] = lastelt], 0)]
       ELSE [item |-> lastelt, heap |-> rest]

RECURSIVE heapify_from(_, _, _)
\* for i in reversed(range(n // 2)): _siftup(x, i), from position i down to 0
heapify_from(hi, heap, i) ==
    IF i < 0 THEN heap ELSE heapify_from(hi, siftup(hi, heap, i), i - 1)

heapify(hi, heap) == heapify_from(hi, heap, (Len(heap) \div 2) - 1)

\* ------------------------------------------------------- SampleEliminator
EmptyMap == [x \in {} |-> WZero]
Unset == [kind |-> "unset", e |-> 0, p |-> 0, q |-> 1]

\* rmin = rmax * (1 - (N / M) ** gamma) * beta, gamma = 1.5, beta = 0.65:
\* kept as the quantities it is computed from; complex when rmax is, or when
\* N / M is negative
RMin(r, N, M) ==
    [kind |-> IF r.kind = "complex" \/ N < 0 THEN "complex" ELSE "real",
     rmax |-> r, N |-> N, M |-> M]

\* the three bounding-box extents
Bounds(locs) ==
    [i \in 1 .. 3 |->
        SetMax({ locs[k].co[i] : k \in 1 .. Len(locs) })
            - SetMin({ locs[k].co[i] : k \in 1 .. Len(locs) })]

RECURSIVE summed(_, _, _)
\* tot_weight += w(d) for the entry f of found, and for the others after it
added(tot, found, r, f) == summed(WAdd(tot, w(f.d2, r)), found \ {f}, r)

\* tot_weight += w(d) for every entry of found, the nearest first (the order
\* in which the range query returns them)
summed(tot, found, r) ==
    IF found = {} THEN tot
    ELSE added(tot, found, r, CHOOSE g \in found : \A h \in found : g.d2 <= h.d2)

\* (mutation: the sum leaves out the points at distance 0)
tot_weight_others(tree, co, r) ==
    summed(WZero, { f \in find_range(tree, co, r) : f.d2 # 0 }, r)

\* tot_weight of one location: the sum of w(d) over its range query
tot_weight(tree, co, r) == summed(WZero, find_range(tree, co, r), r)

RECURSIVE build_heap(_, _, _, _, _, _)
\* heappush of the HeapItem of entry k, stored in items, and the entries after
pushed(locs, tree, r, k, heap, items) ==
    build_heap(locs, tree, r, k + 1, heappush(items, heap, locs[k].index), items)

\* the loop over locations.items() from entry k on: one HeapItem per entry,
\* stored in heap_items and pushed on the heap
build_heap(locs, tree, r, k, heap, items) ==
    IF k > Len(locs) THEN [heap |-> heap, heap_items |-> items]
    ELSE pushed(locs, tree, r, k, heap,
                (locs[k].index :> tot_weight(tree, locs[k].co, r)) @@ items)

\* the object se with the heap and the heap_items of b, after M range queries
heaped(se, b, M) ==
    [se EXCEPT !.heap = b.heap, !.heap_items = b.heap_items, !.queries = M]

\* __init__: the attributes of the object when the constructor returns, or
\* when it raises (error is then the exception, and the attributes are those
\* assigned before it)
SampleEliminator(locs, target, vol, area) ==
    LET M == Len(locs)
        N == target
        begun == [error |-> "none", tree |-> TreeBuild(locs), current_samples |-> M,
                  rmax |-> Unset, rmin |-> Unset, heap |-> << >>,
                  heap_items |-> EmptyMap, queries |-> 0]
    IN IF M = 0
       THEN \* max() of an empty sequence
            [begun EXCEPT !.error = "ValueError"]
       ELSE LET bounds == Bounds(locs)
                A == bounds[1] * bounds[2] * bounds[3]
                surface == ~vol /\ area # << >>
            IN IF N = 0
               THEN \* A / 4 / sqrt(2) / N
                    [begun EXCEPT !.error = "ZeroDivisionError"]
               ELSE IF surface /\ area[1] * N < 0
               THEN \* math.sqrt of a negative number
                    [begun EXCEPT !.error = "ValueError", !.rmax = VolumeRadius(A, N)]
               ELSE IF surface /\ VolumeRadius(A, N).kind = "complex"
               THEN \* min() of a complex and a float
                    [begun EXCEPT !.error = "TypeError", !.rmax = VolumeRadius(A, N)]
               ELSE LET r == IF surface THEN RadiusMin(area[1], A, N)
                             ELSE VolumeRadius(A, N)
                        radii == [begun EXCEPT !.rmax = r, !.rmin = RMin(r, N, M)]
                    IN IF r.kind = "complex"
                       THEN \* find_range with a complex radius
                            [radii EXCEPT !.error = "TypeError"]
                       ELSE IF r.p = 0
                       THEN \* w(0) with rmax = 0: the query point is in its own range
                            [radii EXCEPT !.error = "ZeroDivisionError", !.queries = 1]
                       ELSE heaped(radii,
                                   build_heap(locs, radii.tree, r, 1, << >>, EmptyMap),
                                   M)

\* (mutation: the item of the removed point itself is passed over)
decrement_others(items, found, r) ==
    [i \in DOMAIN items |->
        IF \E f \in found : f.index = i /\ f.d2 # 0
        THEN WSub(items[i], w((CHOOSE f \in found : f.index = i).d2, r))
        ELSE items[i]]

\* the decrements of eliminate_one: every identifier the range query around
\* the removed location returns has w(d) subtracted from its HeapItem
decrement(items, found, r) ==
    [i \in DOMAIN items |->
        IF \E f \in found : f.index = i
        THEN WSub(items[i], w((CHOOSE f \in found : f.index = i).d2, r))
        ELSE items[i]]

\* (mutation: the loop runs once more)
eliminate_while_inclusive(current, target) == current >= target

\* the condition of the loop of eliminate()
eliminate_while(current, target) == current > target

\* the object se with the HeapItems items, its heap rest made a heap again
reheaped(se, items, rest) ==
    [se EXCEPT !.heap_items = items,
               !.heap = heapify(items, rest),
               !.current_samples = @ - 1,
               !.queries = @ + 1]

\* the rest of eliminate_one after heappop has returned popped
removed_top(se, locs, popped) ==
    reheaped(se,
             decrement(se.heap_items,
                       find_range(se.tree, LocationOf(locs, popped.item), se.rmax),
                       se.rmax),
             popped.heap)

\* eliminate_one on an object se over the mapping locs: the object afterwards
eliminated_one(se, locs) ==
    IF se.heap = << >>
    THEN \* heappop of an empty list
         [se EXCEPT !.error = "IndexError"]
    ELSE removed_top(se, locs, heappop(se.heap_items, se.heap))

RECURSIVE eliminate(_, _, _)
\* eliminate(): eliminate_one while current_samples > target_samples
eliminate(se, locs, target) ==
    IF se.error = "none" /\ eliminate_while(se.current_samples, target)
    THEN eliminate(eliminated_one(se, locs), locs, target)
    ELSE se

RECURSIVE RunSteps(_, _, _)
\* the object se after n calls of eliminate_one
RunSteps(se, locs, n) ==
    IF n = 0 THEN se ELSE RunSteps(eliminated_one(se, locs), locs, n - 1)

\* the object after se = SampleEliminator(...); se.eliminate(), or after the
\* exception that ends the call
Run(locs, target, vol, area) ==
    eliminate(SampleEliminator(locs, target, vol, area), locs, target)

\* ------------------------------------------------------------------ state
VARIABLES pc, locations, target_samples, is_volume, mesh_area,
          tree, current_samples, rmax, rmin, heap, heap_items,
          error, queries, removed, indices, peer

vars == << pc, locations, target_samples, is_volume, mesh_area, single,
           tree, current_samples, rmax, rmin, heap, heap_items,
           error, queries, removed, indices, peer >>

inputs == << locations, target_samples, is_volume, mesh_area, single >>

\* the attributes of the object, as one record
Self ==
    [error |-> error, tree |-> tree, current_samples |-> current_samples,
     rmax |-> rmax, rmin |-> rmin, heap |-> heap, heap_items |-> heap_items,
     queries |-> queries]

\* an object none of whose attributes has been assigned
Unbuilt ==
    [error |-> "none", tree |-> NoTree, current_samples |-> 0, rmax |-> Unset,
     rmin |-> Unset, heap |-> << >>, heap_items |-> EmptyMap, queries |-> 0]

\* peer is a second SampleEliminator object of the same process, with its own
\* inputs and its own position; NoPeer when there is none
NoPeer ==
    [pc |-> "absent", locations |-> << >>, target_samples |-> 0, is_volume |-> TRUE,
     mesh_area |-> << >>, se |-> Unbuilt, steps |-> 0, indices |-> << >>]

\* (mutation: heap and heap_items are attributes of the class)
ClassLevel_heap == {"heap", "heap_items"}

\* the attributes that belong to the class, and so to every object at once:
\* the class body defines none, every attribute is assigned on self
ClassLevel == {}

\* the attributes of the object mine after another object has come to hold
\* the attributes theirs
WrittenThrough(mine, theirs) ==
    [a \in DOMAIN mine |-> IF a \in ClassLevel THEN theirs[a] ELSE mine[a]]

\* identifiers of an input of n points, in the dict's iteration order
IdOrders(n) == { [k \in 1 .. n |-> k], [k \in 1 .. n |-> n + 1 - k] }

Inputs ==
    UNION { { [k \in 1 .. n |-> [index |-> ids[k], co |-> cos[k]]] :
                ids \in IdOrders(n), cos \in [1 .. n -> Sites] } :
            n \in 0 .. MaxPoints }

Init ==
    /\ locations \in Inputs
    /\ target_samples \in Targets
    /\ \E mode \in Modes : is_volume = mode[1] /\ mesh_area = mode[2]
    /\ single \in BOOLEAN
    /\ pc = "new"
    /\ tree = NoTree
    /\ current_samples = 0
    /\ rmax = Unset
    /\ rmin = Unset
    /\ heap = << >>
    /\ heap_items = EmptyMap
    /\ error = "none"
    /\ queries = 0
    /\ removed = << >>
    /\ indices = << >>
    /\ peer = NoPeer

\* se = SampleEliminator(locations, self.count, is_volume, mesh_area)
Construct ==
    /\ pc = "new"
    /\ \E se \in { SampleEliminator(locations, target_samples, is_volume, mesh_area) } :
          /\ tree' = se.tree
          /\ current_samples' = se.current_samples
          /\ rmax' = se.rmax
          /\ rmin' = se.rmin
          /\ heap' = se.heap
          /\ heap_items' = se.heap_items
          /\ error' = se.error
          /\ queries' = se.queries
          /\ pc' = IF se.error = "none" THEN "eliminate" ELSE "failed"
    /\ peer' = [peer EXCEPT !.se = WrittenThrough(@, Self')]
    /\ UNCHANGED << inputs, removed, indices >>

\* one iteration of the loop of eliminate(): eliminate_one()
eliminate_one ==
    /\ pc = "eliminate"
    /\ eliminate_while(current_samples, target_samples)
    /\ IF heap = << >>
       THEN \* heappop of an empty list
            /\ error' = "IndexError"
            /\ pc' = "failed"
            /\ UNCHANGED << heap, heap_items, current_samples, queries, removed >>
       ELSE \E popped \in { heappop(heap_items, heap) } :
            \E items \in { decrement(heap_items,
                                     find_range(tree, LocationOf(locations, popped.item), rmax),
                                     rmax) } :
               /\ heap_items' = items
               /\ heap' = heapify(items, popped.heap)
               /\ current_samples' = current_samples - 1
               /\ queries' = queries + 1
               /\ removed' = Append(removed, [index |-> popped.item,
                                              weight |-> heap_items[popped.item]])
               /\ UNCHANGED << error, pc >>
    /\ peer' = [peer EXCEPT !.se = WrittenThrough(@, Self')]
    /\ UNCHANGED << inputs, tree, rmax, rmin, indices >>

\* eliminate() returns: the loop condition is false
eliminate_return ==
    /\ pc = "eliminate"
    /\ ~eliminate_while(current_samples, target_samples)
    /\ pc' = "collect"
    /\ UNCHANGED << inputs, tree, current_samples, rmax, rmin, heap, heap_items,
                    error, queries, removed, indices, peer >>

\* alive_indices = se.get_indices(), consumed by the caller
get_indices ==
    /\ pc = "collect"
    /\ indices' = heap
    /\ pc' = "done"
    /\ UNCHANGED << inputs, tree, current_samples, rmax, rmin, heap, heap_items,
                    error, queries, removed, peer >>

Next == Construct \/ eliminate_one \/ eliminate_return \/ get_indices

Spec == Init /\ [][Next]_vars

\* execute() is one synchronous call that nothing suspends: a statement that
\* is due is executed.  A step that changes pc is a step of Construct, of
\* eliminate_return or of get_indices, and a step that adds a range query in
\* the loop is a step of eliminate_one, so fairness is stated on these two
\* observations of the steps.
NextStatement ==
    /\ pc \in {"new", "eliminate", "collect"}
    /\ pc = "eliminate" => ~eliminate_while(current_samples, target_samples)
    /\ pc' \in {"new", "eliminate", "collect", "done", "failed"} \ {pc}

NextIteration ==
    /\ pc = "eliminate"
    /\ eliminate_while(current_samples, target_samples)
    /\ queries' = queries + 1

FairSpec == Spec /\ WF_pc(NextStatement) /\ WF_queries(NextIteration)

\* ------------------------------------------------------------ two objects
\* Two SampleEliminator objects in one process, over disjoint point sets;
\* their steps interleave in any order.  The first object is held in the
\* variables above, the second in peer.
PairSites == { <<0, 0, 0>>, <<1, 1, 1>>, <<2, 2, 2>> }
PairModes == { <<TRUE, << >> >>, <<FALSE, <<2>> >> }

PairInputs ==
    UNION { { [k \in 1 .. n |-> [index |-> k, co |-> cos[k]]] :
                cos \in [1 .. n -> PairSites] } :
            n \in 1 .. MaxPoints }

\* the second object's points: other identifiers, other positions
PeerLocations ==
    << [index |-> MaxPoints + 1, co |-> <<3, 3, 3>>],
       [index |-> MaxPoints + 2, co |-> <<4, 4, 4>>],
       [index |-> MaxPoints + 3, co |-> <<5, 5, 5>>] >>

PairInit ==
    /\ locations \in PairInputs
    /\ target_samples \in 1 .. MaxTarget
    /\ \E mode \in PairModes : is_volume = mode[1] /\ mesh_area = mode[2]
    /\ single \in BOOLEAN
    /\ pc = "new"
    /\ tree = NoTree
    /\ current_samples = 0
    /\ rmax = Unset
    /\ rmin = Unset
    /\ heap = << >>
    /\ heap_items = EmptyMap
    /\ error = "none"
    /\ queries = 0
    /\ removed = << >>
    /\ indices = << >>
    /\ \E target \in 1 .. 2 :
          peer = [NoPeer EXCEPT !.pc = "new", !.locations = PeerLocations,
                                !.target_samples = target]

\* what a step of the second object that leaves it with the attributes se
\* does to the variables of the first
PeerWrites(se) ==
    \E mine \in { WrittenThrough(Self, se) } :
       /\ error' = mine.error
       /\ tree' = mine.tree
       /\ current_samples' = mine.current_samples
       /\ rmax' = mine.rmax
       /\ rmin' = mine.rmin
       /\ heap' = mine.heap
       /\ heap_items' = mine.heap_items
       /\ queries' = mine.queries
       /\ UNCHANGED << pc, inputs, removed, indices >>

\* the second object: SampleEliminator(...)
PeerConstruct ==
    /\ peer.pc = "new"
    /\ \E se \in { SampleEliminator(peer.locations, peer.target_samples,
                                     peer.is_volume, peer.mesh_area) } :
          /\ peer' = [peer EXCEPT !.se = se,
                                  !.pc = IF se.error = "none" THEN "eliminate" ELSE "failed"]
          /\ PeerWrites(se)

\* the second object: one iteration of the loop of eliminate()
PeerEliminateOne ==
    /\ peer.pc = "eliminate"
    /\ eliminate_while(peer.se.current_samples, peer.target_samples)
    /\ \E se \in { eliminated_one(peer.se, peer.locations) } :
          /\ peer' = [peer EXCEPT !.se = se, !.steps = @ + 1,
                                  !.pc = IF se.error = "none" THEN "eliminate" ELSE "failed"]
          /\ PeerWrites(se)

\* the second object: eliminate() returns
PeerEliminateReturn ==
    /\ peer.pc = "eliminate"
    /\ ~eliminate_while(peer.se.current_samples, peer.target_samples)
    /\ peer' = [peer EXCEPT !.pc = "collect"]
    /\ UNCHANGED << pc, inputs, tree, current_samples, rmax, rmin, heap, heap_items,
                    error, queries, removed, indices >>

\* the second object: get_indices()
PeerGetIndices ==
    /\ peer.pc = "collect"
    /\ peer' = [peer EXCEPT !.pc = "done", !.indices = peer.se.heap]
    /\ UNCHANGED << pc, inputs, tree, current_samples, rmax, rmin, heap, heap_items,
                    error, queries, removed, indices >>

PairNext ==
    \/ Construct \/ eliminate_one \/ eliminate_return \/ get_indices
    \/ PeerConstruct \/ PeerEliminateOne \/ PeerEliminateReturn \/ PeerGetIndices

PairSpec == PairInit /\ [][PairNext]_vars

\* ---------------------------------------------------------------- vocabulary
Keys == Indices(locations)
Range(seq) == { seq[k] : k \in 1 .. Len(seq) }
NoDuplicates(seq) == \A j, k \in 1 .. Len(seq) : seq[j] = seq[k] => j = k
Ended == pc \in {"done", "failed"}

\* the points still in the priority structure
Live == Range(heap)

\* some bounding-box extent of a non-empty input is zero
Degenerate ==
    /\ Len(locations) >= 1
    /\ \E i \in 1 .. 3 : Bounds(locations)[i] = 0

SurfaceMode == ~is_volume /\ mesh_area # << >>

\* a non-empty input with three non-zero extents, a positive target and, in
\* surface mode, a positive reference area
WellFormed ==
    /\ Len(locations) >= 1
    /\ ~Degenerate
    /\ target_samples >= 1
    /\ SurfaceMode => mesh_area[1] > 0

\* tot_weight as the constructor accumulates it (tot_weight = 0, then
\* tot_weight += self.w(d) for every result of the range query around p),
\* over the results whose identifier is in S
Contributions(p, S) ==
    summed(WZero,
           { f \in find_range(tree, LocationOf(locations, p), rmax) : f.index \in S },
           rmax)

\* item.weight -= self.w(d) of the step that removed q, on the weight wt of p:
\* applied when the range query around q returns p
lowered(wt, d2) == IF WithinTwice(d2, rmax) THEN WSub(wt, w(d2, rmax)) ELSE wt

RECURSIVE Decremented(_, _)
\* the weight of p's HeapItem after the first k eliminations: its tot_weight
\* of the constructor, then one decrement for every removed point in whose
\* range query p is, in the order of the removals
Decremented(p, k) ==
    IF k = 0 THEN tot_weight(tree, LocationOf(locations, p), rmax)
    ELSE lowered(Decremented(p, k - 1),
                 Dist2(LocationOf(locations, removed[k].index), LocationOf(locations, p)))

LastRemoved == removed[Len(removed)]

\* Every sum and every difference is rounded, by half a unit in the last
\* place of its result at most; a stored weight is below 4, the result of
\* MaxPoints additions and as many subtractions at most.  Tolerance is 2^-48,
\* sixteen units in the last place of 1.0.
Tolerance == Double(0 - 100, 2 ^ 24, 0)

\* |a - b| <= Tolerance
Near(a, b) == WLeq([WSub(a, b) EXCEPT !.neg = FALSE], Tolerance)

\* a non-empty input with three non-zero extents and, in surface mode, a
\* positive reference area: the geometry is valid whatever the target is
ValidGeometry ==
    /\ Len(locations) >= 1
    /\ ~Degenerate
    /\ SurfaceMode => mesh_area[1] > 0

\* ------------------------------------------------------------------ claims

\* C1 (size property): on an input of N points with valid geometry and
\* 0 <= target_samples <= N, target_samples = 0 included, the run ends with
\* get_indices() yielding exactly target_samples identifiers, each a key of
\* the input, none repeated.
C1_SizeProperty ==
    (ValidGeometry /\ 0 <= target_samples /\ target_samples <= Len(locations) /\ Ended)
        => /\ pc = "done"
           /\ Len(indices) = target_samples
           /\ Range(indices) \subseteq Keys
           /\ NoDuplicates(indices)

\* C2 (empty output): when target_samples <= 0 the run ends without a failure,
\* with current_samples = 0 and an empty output; no extraction is attempted on
\* an empty priority structure.  Stated for target_samples = 0, the boundary
\* the loop must guard (negative targets are the subject of C6).
C2_EmptyOutput ==
    (ValidGeometry /\ target_samples = 0 /\ Ended)
        => /\ pc = "done"
           /\ error = "none"
           /\ current_samples = 0
           /\ indices = << >>

\* C3 (identity, as the code has it): on a well-formed input (non-empty, three
\* non-zero extents, in surface mode a positive area) with target_samples >= N
\* the constructor completes, no elimination step is performed and
\* get_indices() yields exactly the keys of the input.
C3_PassThrough ==
    (WellFormed /\ target_samples >= Len(locations) /\ pc # "new")
        => /\ pc # "failed"
           /\ removed = << >>
           /\ current_samples = Len(locations)
           /\ Range(heap) = Keys
           /\ pc = "done" => (Range(indices) = Keys /\ Len(indices) = Len(locations))

C3_PassThroughWitness ==
    /\ pc = "done"
    /\ WellFormed
    /\ Len(locations) = 3
    /\ target_samples >= Len(locations)
    /\ Range(indices) = Keys

\* C3 as claimed: for every input of N >= 1 points with target_samples >= N,
\* degenerate or not, no elimination occurs and the output is the key set.
C3_PassThroughEveryInput ==
    (Len(locations) >= 1 /\ target_samples >= Len(locations) /\ Ended)
        => /\ pc = "done"
           /\ removed = << >>
           /\ Range(indices) = Keys

\* C4 (degenerate geometry rejected): when some bounding extent is zero the
\* constructor fails before any range query or weight computation, and rmax
\* is never set to zero.  (The kind of exception is left open; the claim
\* names InvalidInput.)
C4_DegenerateRejected ==
    (Degenerate /\ target_samples >= 1 /\ pc # "new")
        => /\ pc = "failed"
           /\ queries = 0
           /\ ~(rmax.kind = "real" /\ rmax.p = 0)

\* C5 (boundary scenario): for the points (0,0,0), (1,0,0), (2,0,0) and
\* target_samples = 1 the run completes with exactly one identifier, one of
\* the three keys.
C5_CollinearScenario ==
    (/\ Len(locations) = 3
     /\ { locations[k].co : k \in 1 .. 3 } = { <<0, 0, 0>>, <<1, 0, 0>>, <<2, 0, 0>> }
     /\ target_samples = 1
     /\ Ended)
        => /\ pc = "done"
           /\ Len(indices) = 1
           /\ indices[1] \in Keys

\* C6 (fail fast): on an empty input or a negative target the constructor
\* fails before the spatial index is built or queried and before any weight
\* or heap entry exists.  (The kind of exception is left open; the claim
\* names InvalidInput.)
C6_FailFast ==
    ((Len(locations) = 0 \/ target_samples < 0) /\ pc # "new")
        => /\ pc = "failed"
           /\ tree = NoTree
           /\ queries = 0
           /\ heap = << >>
           /\ heap_items = EmptyMap

\* C7 (extract-max): in every elimination step the point removed is live and
\* its current weight, the weight of the constructor with the decrement of
\* every earlier removal applied, is at least the current weight of every live
\* point, each of them current in the same sense.
C7_ExtractMax ==
    [][ Len(removed') = Len(removed) + 1
          => /\ LastRemoved'.index \in Live
             /\ LastRemoved'.weight = heap_items[LastRemoved'.index]
             /\ \A q \in Live :
                   /\ heap_items[q] = Decremented(q, Len(removed))
                   /\ WLeq(heap_items[q], LastRemoved'.weight) ]_vars

\* a step has removed a point while a point of strictly smaller weight, an
\* earlier decrement applied to it, stayed
C7_ExtractMaxWitness ==
    /\ Len(removed) >= 2
    /\ \E q \in Live :
          /\ WLess(Decremented(q, Len(removed) - 1), LastRemoved.weight)
          /\ WLess(Decremented(q, Len(removed) - 1), Decremented(q, 0))

\* C8 (weight conservation): after Build and after every elimination step the
\* stored weight of a live point p is the sum of w(distance(p, r)) over the
\* live points r other than p within 2 * rmax of p; the rounding of the
\* additions and subtractions is allowed for.
C8_WeightOfOthersOnly ==
    pc \in {"eliminate", "collect", "done"}
        => \A p \in Live : Near(heap_items[p], Contributions(p, Live \ {p}))

\* C9 (self-exclusion): the range query centred on the location of P does not
\* contribute P, so the weight the constructor gives P is the sum over the
\* other points in range, and the step that eliminates P leaves the weight
\* of P's own item as it was when it was extracted.
C9_SelfExcluded ==
    pc \in {"eliminate", "collect", "done"}
        => /\ removed = << >>
                 => \A p \in Keys : heap_items[p] = Contributions(p, Keys \ {p})
           /\ removed # << >>
                 => heap_items[LastRemoved.index] = LastRemoved.weight

\* C10 (monotone weights): the weights recorded at extraction never increase
\* from one elimination step to the next.
C10_MonotoneWeights ==
    \A k \in 1 .. (Len(removed) - 1) : WLeq(removed[k + 1].weight, removed[k].weight)

\* two consecutive steps, the second extracting a strictly smaller weight
C10_MonotoneWeightsWitness ==
    /\ Len(removed) >= 2
    /\ WLess(removed[2].weight, removed[1].weight)

\* the same mapping, its entries enumerated in the opposite order
Reversed(locs) == [k \in 1 .. Len(locs) |-> locs[Len(locs) + 1 - k]]

\* C11 (deterministic tie-break): a run on the same identifier-to-position
\* mapping, target, mode and area returns the same survivor set when the
\* entries of the mapping are enumerated, and so inserted, in the opposite
\* order.
C11_OrderIndependent ==
    pc = "done"
        => LET other == Run(Reversed(locations), target_samples, is_volume, mesh_area)
           IN /\ other.error = "none"
              /\ Range(other.heap) = Range(indices)

\* the identifiers eliminated so far, in the order of their removal
RemovedIndices == { removed[k].index : k \in 1 .. Len(removed) }

\* C13 (decrements of a step, as the code has it): an elimination step
\* subtracts w(d) from the item of every identifier whose location is within
\* 2 * rmax of the removed location, whether that identifier is still in the
\* heap, was eliminated in an earlier step, or is the removed point itself;
\* no other item changes, and the heap loses the removed identifier only.
C13_DecrementsEveryNeighbour ==
    [][ Len(removed') = Len(removed) + 1
          => LET r == removed'[Len(removed')]
                 co == LocationOf(locations, r.index)
             IN /\ Range(heap') = Live \ {r.index}
                /\ DOMAIN heap_items' = DOMAIN heap_items
                /\ \A i \in DOMAIN heap_items :
                      LET d2 == Dist2(co, LocationOf(locations, i))
                      IN heap_items'[i] =
                            IF WithinTwice(d2, rmax)
                            THEN WSub(heap_items[i], w(d2, rmax))
                            ELSE heap_items[i] ]_vars

\* the item of the point eliminated first has been decremented by the second
\* step: it is no longer its weight at removal less w(0)
C13_DecrementsEveryNeighbourWitness ==
    /\ Len(removed) >= 2
    /\ removed[1].index \notin Live
    /\ WLess(heap_items[removed[1].index], WSub(removed[1].weight, WOne))

\* C13 as claimed: a step leaves the item of every point eliminated in an
\* earlier step as it was.
C13_EliminatedSkipped ==
    [][ Len(removed') = Len(removed) + 1
          => \A i \in RemovedIndices : heap_items'[i] = heap_items[i] ]_vars

\* C14 (count/structure agreement): in every state after Build
\* current_samples is the number of entries of the heap; an elimination step
\* removes exactly one entry and adds none, so current_samples decreases by
\* one; and when target_samples <= N it never falls below target_samples and
\* the heap ends with exactly target_samples entries.
C14_CountAgreement ==
    /\ [](pc \in {"eliminate", "collect", "done"}
            => /\ current_samples = Len(heap)
               /\ NoDuplicates(heap)
               /\ target_samples <= Len(locations)
                     => /\ current_samples >= target_samples
                        /\ pc \in {"collect", "done"} => Len(heap) = target_samples)
    /\ [][ Len(removed') = Len(removed) + 1
             => /\ current_samples' = current_samples - 1
                /\ Range(heap') \subseteq Range(heap)
                /\ Cardinality(Range(heap')) = Cardinality(Range(heap)) - 1 ]_vars

\* a run of two elimination steps has ended with target_samples entries
C14_CountAgreementWitness ==
    /\ pc = "done"
    /\ Len(removed) = 2
    /\ Len(heap) = target_samples
    /\ current_samples = target_samples

\* the input points within 2 * rmax of the location co, eliminated or not
InRange(co) ==
    { [index |-> locations[k].index, d2 |-> Dist2(locations[k].co, co)] :
        k \in { j \in 1 .. Len(locations) : WithinTwice(Dist2(locations[j].co, co), rmax) } }

\* C15 (frame of an elimination step): eliminate_one leaves the stored
\* locations, the spatial index, rmax, rmin and target_samples unchanged; a
\* range query issued after the step returns every input point within the
\* radius, the eliminated ones included, as it did before any elimination;
\* and the outcome of the step is the same whatever rmin is (rmin is not
\* read).
C15_StepFrame ==
    [][ Len(removed') = Len(removed) + 1
          => /\ UNCHANGED << locations, tree, rmax, rmin, target_samples >>
             /\ \A p \in Keys :
                   /\ find_range(tree', LocationOf(locations', p), rmax')
                         = InRange(LocationOf(locations, p))
                   /\ find_range(tree', LocationOf(locations', p), rmax')
                         = find_range(TreeBuild(locations), LocationOf(locations, p), rmax)
             /\ LET blind == eliminated_one([Self EXCEPT !.rmin = Unset], locations)
                IN /\ heap' = blind.heap
                   /\ heap_items' = blind.heap_items
                   /\ current_samples' = blind.current_samples ]_vars

\* after an elimination a query around a live point still returns an
\* eliminated point
C15_StepFrameWitness ==
    /\ removed # << >>
    /\ \E p \in Live : \E f \in find_range(tree, LocationOf(locations, p), rmax) :
          f.index \in RemovedIndices

\* max(0, N - target_samples)
StepsDue ==
    IF Len(locations) > target_samples THEN Len(locations) - target_samples ELSE 0

\* C16 (termination): on every input for which Build completes, eliminate()
\* returns, after exactly max(0, N - target_samples) elimination steps, with
\* current_samples = target_samples when target_samples <= N; while the loop
\* runs fewer steps than that have been made.
C16_Termination ==
    /\ (pc = "eliminate")
          ~> (/\ pc = "collect"
              /\ Len(removed) = StepsDue
              /\ target_samples <= Len(locations) => current_samples = target_samples)
    /\ [](pc = "eliminate" => Len(removed) <= StepsDue)
    /\ [](pc \in {"collect", "done"} => Len(removed) = StepsDue)

\* eliminate() has returned after two elimination steps
C16_TerminationWitness ==
    /\ pc = "collect"
    /\ StepsDue = 2
    /\ Len(removed) = 2

\* the squared distances between two sites: those within 2 * rmax and those
\* beyond it, 0 included
Distances2 == { Dist2(a, b) : a \in Sites, b \in Sites }

\* wd, the weight w(d) of the distance d with square d2, lies in [0, 1], is 0
\* when d >= 2 * rmax, and no greater distance has a greater weight
ShapeAt(d2, wd) ==
    /\ WLeq(WZero, wd)
    /\ WLeq(wd, WOne)
    /\ WLeq(Twice(Value(rmax)), Distance(d2)) => wd = WZero
    /\ \A e2 \in Distances2 : d2 <= e2 => WLeq(w(e2, rmax), wd)

\* C17 (shape of the weight model): for the rmax of a completed Build, w(d)
\* lies in [0, 1] for every distance d, is 1 at d = 0, is exactly 0 for every
\* d >= 2 * rmax, and does not increase with d; so every decrement of an
\* elimination step is non-negative and no stored weight increases after
\* Build.
C17_WeightShape ==
    /\ [](pc \in {"eliminate", "collect", "done"}
            => /\ w(0, rmax) = WOne
               /\ \A d2 \in Distances2 : ShapeAt(d2, w(d2, rmax)))
    /\ [][ Len(removed') = Len(removed) + 1
             => \A i \in DOMAIN heap_items : WLeq(heap_items'[i], heap_items[i]) ]_vars

\* a step has lowered the stored weight of a live point below the weight the
\* constructor gave it, and for the same rmax some site distance is beyond
\* the support of w and another is inside it
C17_WeightShapeWitness ==
    /\ removed # << >>
    /\ \E p \in Live :
          WLess(heap_items[p], tot_weight(tree, LocationOf(locations, p), rmax))
    /\ \E d2 \in Distances2 : WLeq(Twice(Value(rmax)), Distance(d2))
    /\ \E d2 \in Distances2 : WLess(WZero, w(d2, rmax)) /\ WLess(w(d2, rmax), WOne)

\* the bounding volume A of the input
Volume == Bounds(locations)[1] * Bounds(locations)[2] * Bounds(locations)[3]

\* the squared distances 0 .. 12 that occur between points of the bounding
\* cube of the sites
SquaredDistances == 0 .. SetMax(Distances2)

\* the object other has the rmax, the outcome, the heap and the weights of
\* the object of the state
SameOutcome(other) ==
    /\ other.rmax = rmax
    /\ other.error = error
    /\ other.heap = heap
    /\ other.heap_items = heap_items

\* C18 (radius selection): for a non-empty input and target_samples >= 1,
\* when is_volume is false and a reference area is supplied rmax is the
\* smaller of the volume candidate and the surface candidate (it is one of
\* the two, and whatever is within 2 * rmax is within twice either
\* candidate); otherwise rmax is the volume candidate.  When is_volume is
\* true the run has the same rmax, the same outcome and the same survivors
\* for every value of mesh_area.
C18_RadiusSelection ==
    /\ (pc # "new" /\ Len(locations) >= 1 /\ target_samples >= 1)
          => LET vol == VolumeRadius(Volume, target_samples)
             IN IF SurfaceMode
                THEN LET surf == SurfaceRadius(mesh_area[1], target_samples)
                     IN /\ rmax \in {vol, surf}
                        /\ rmax = IF SurfaceLess(mesh_area[1], Volume, target_samples)
                                  THEN surf ELSE vol
                        /\ \A d2 \in SquaredDistances :
                              WithinTwice(d2, rmax)
                                  => WithinTwice(d2, vol) /\ WithinTwice(d2, surf)
                ELSE rmax = vol
    /\ (Ended /\ is_volume)
          => \A area \in { mode[2] : mode \in Modes } :
                SameOutcome(Run(locations, target_samples, TRUE, area))

\* a surface-mode run in which the volume candidate is the smaller one has
\* eliminated a point
C18_RadiusSelectionWitness ==
    /\ SurfaceMode
    /\ removed # << >>
    /\ rmax = VolumeRadius(Volume, target_samples)
    /\ \E d2 \in SquaredDistances :
          /\ ~WithinTwice(d2, rmax)
          /\ WithinTwice(d2, SurfaceRadius(mesh_area[1], target_samples))

\* C19 (lookups cannot fail): after Build heap_items has an item for every
\* input identifier and no step removes one, so every identifier a range
\* query around an input location returns (live, eliminated, or the removed
\* point itself) is a key of heap_items, after any number of eliminations.
C19_LookupsSucceed ==
    /\ [](pc \in {"eliminate", "collect", "done"}
            => /\ DOMAIN heap_items = Keys
               /\ error = "none"
               /\ \A p \in Keys :
                     \A f \in find_range(tree, LocationOf(locations, p), rmax) :
                        f.index \in DOMAIN heap_items)
    /\ [][ pc = "eliminate" => DOMAIN heap_items' = DOMAIN heap_items ]_vars

\* after two eliminations the query around the location removed last has
\* returned the point eliminated first and the removed point itself, and the
\* query around a live location returns an eliminated point
C19_LookupsSucceedWitness ==
    /\ Len(removed) = 2
    /\ LET found == find_range(tree, LocationOf(locations, LastRemoved.index), rmax)
       IN /\ \E f \in found : f.index = removed[1].index
          /\ \E f \in found : f.index = LastRemoved.index
    /\ \E p \in Live : \E f \in find_range(tree, LocationOf(locations, p), rmax) :
          f.index \notin Live

\* the attributes of an object that runs alone on its inputs, after n steps
Alone(locs, target, vol, area, n) ==
    RunSteps(SampleEliminator(locs, target, vol, area), locs, n)

\* C12 (instance isolation): for two objects over disjoint point sets, in
\* every interleaving of their steps each object has, after each of its
\* steps, the attributes (heap, stored weights, current_samples, rmax and the
\* others) it has when it runs alone, and returns the survivors it returns
\* alone; a step of one object changes no attribute of the other.
C12_InstanceIsolation ==
    /\ [](pc \in {"eliminate", "collect", "done"}
            => Self = Alone(locations, target_samples, is_volume, mesh_area, Len(removed)))
    /\ [](peer.pc \in {"eliminate", "collect", "done"}
            => peer.se = Alone(peer.locations, peer.target_samples,
                               peer.is_volume, peer.mesh_area, peer.steps))
    /\ [](pc = "done"
            => indices = Run(locations, target_samples, is_volume, mesh_area).heap)
    /\ [](peer.pc = "done"
            => peer.indices = Run(peer.locations, peer.target_samples,
                                  peer.is_volume, peer.mesh_area).heap)
    /\ [][ peer' # peer => Self' = Self ]_vars
    /\ [][ Self' # Self => peer' = peer ]_vars

\* both objects are in the middle of their loops, each with one elimination
\* made and one still to come
C12_InstanceIsolationWitness ==
    /\ pc = "eliminate"
    /\ Len(removed) = 1
    /\ current_samples > target_samples
    /\ peer.pc = "eliminate"
    /\ peer.steps = 1
    /\ peer.se.current_samples > peer.target_samples

\* C20 (self-inclusive conservation, as the code has it): after Build and
\* after every elimination step every live point p is in the result of the
\* range query around its own location, and its stored weight is, up to the
\* rounding of the additions and subtractions that produced it, the sum of
\* w(distance(p, r)) over all live points r within 2 * rmax of p, p itself
\* included; so every live weight is at least w(0) less that rounding.
\* After Build the stored weight is that sum bit for bit, and after every
\* step it is that of Build with the decrements of the removals applied.
C20_SelfInclusiveConservation ==
    pc \in {"eliminate", "collect", "done"}
        => \A p \in Live :
              /\ p \in { f.index : f \in find_range(tree, LocationOf(locations, p), rmax) }
              /\ removed = << >> => heap_items[p] = Contributions(p, Live)
              /\ heap_items[p] = Decremented(p, Len(removed))
              /\ Near(heap_items[p], Contributions(p, Live))
              /\ WLeq(WSub(w(0, rmax), Tolerance), heap_items[p])

\* a live point has seen a neighbour within range eliminated, and what is
\* left of its weight is below its own contribution w(0): the sum 1 + w was
\* rounded, and so was the difference (1 + w) - w
C20_SelfInclusiveConservationWitness ==
    /\ removed # << >>
    /\ \E p \in Live :
          /\ WLess(heap_items[p], w(0, rmax))
          /\ WLess(w(0, rmax), Contributions(p, Keys))

\* C20 as claimed: every live weight is at least w(0).
C20_LiveWeightAtLeastOwn ==
    pc \in {"eliminate", "collect", "done"}
        => \A p \in Live : WLeq(w(0, rmax), heap_items[p])

====
